---- MODULE Spec2Model ----
(***************************************************************************)
(* Model of ansible/library/partition.py: the "partition" Ansible module,  *)
(* which reconciles one partition range and the disk label of a block      *)
(* device by driving parted.                                               *)
(*                                                                         *)
(* The module is Python 2 code (len(filter(...)), a commented print        *)
(* statement); the model follows Python 2 semantics, in particular the     *)
(* ordering of a str against an int (every number sorts before every       *)
(* string).                                                                *)
(*                                                                         *)
(* Numbers are integers counting thousandths of the unit of the report, so *)
(* that round(x, 2) is a real operation: 1004 stands for 1.004.            *)
(***************************************************************************)
EXTENDS Integers, Sequences, FiniteSets, TLC

VARIABLES
    pc,          \* position of main() in the current run
    run,         \* 1 for the first invocation of the module, 2 for the next
    dLabel,      \* params: label
    dStart,      \* params: start (int, here in thousandths)
    dEnd,        \* params: end   (int, here in thousandths; negative = rest of disk)
    devLabel,    \* the device: its disk label
    devParts,    \* the device: its partitions, in number order
    loaded,      \* whether self.label/self.size/self.table exist on the PartitionTable
    label,       \* self.label
    size,        \* self.size, numify'd (0 while the attribute does not exist)
    table,       \* self.table: sequence of Partition objects
    idx,         \* position of the "for partition in self.table" loop
    cmds,        \* every run_command call of the current run, with its exit code
    prev,        \* cmds of the previous run
    changed_label,
    changed_table,
    result,      \* what exit_json received
    error,       \* the exception that ended the run, if any
    check_mode,  \* module.check_mode: the run was asked to change nothing
    arg,         \* the arguments of a function of the module called on its own
    out          \* what that call returned

vars == <<pc, run, check_mode, arg, out, dLabel, dStart, dEnd, devLabel, devParts, loaded, label, size,
          table, idx, cmds, prev, changed_label, changed_table, result, error>>

---------------------------------------------------------------------------
(* Bounds of the model *)

\* size of the disk, in whole units
DiskUnits == 2
\* number of partitions on the device when the first run starts
MaxParts == 2
\* number of runs of the module against the device
MaxRuns == 2
\* how many commands of one behaviour may exit non-zero
MaxFails == 1

Milli(n) == n * 1000

DiskSize == Milli(DiskUnits)

Labels == {"gpt", "msdos"}

\* what a report can show beyond whole units: a conversion drift of 0.004
Drifts == {0, 4}

---------------------------------------------------------------------------
(* Partition *)

\* Python 2: "str < int" is False whatever the values (numbers sort first).
StrLessThanInt(s, n) == FALSE

RECURSIVE Pow2Mod(_)
\* 2^k modulo 1000
Pow2Mod(k) == IF k = 0 THEN 1 ELSE (2 * Pow2Mod(k - 1)) % 1000

RECURSIVE BinaryExponent(_)
\* float(a): the exponent e of m thousandths, m > 0: 2^e <= m/1000 < 2^(e+1)
BinaryExponent(m) ==
    IF m >= 2000 THEN 1 + BinaryExponent(m \div 2)
    ELSE IF m < 1000 THEN BinaryExponent(2 * m) - 1
    ELSE 0

\* float(a): what m * 2^(52-e) leaves over 1000 when the 53-bit mantissa of
\* m thousandths is taken. 0: the double is m/1000 exactly; below 500: the
\* mantissa was rounded down and the double lies below m/1000; above 500: it
\* lies above. (500 itself would need m * 2^(52-e) to be odd times 4.)
DoubleResidue(m) == ((m % 1000) * Pow2Mod(52 - BinaryExponent(m))) % 1000

DoubleBelow(m) == DoubleResidue(m) > 0 /\ DoubleResidue(m) < 500

\* round(float(a), 2) on thousandths: to the nearest hundredth of the double;
\* a tie of the thousandths goes down when the double lies below it, and away
\* from zero when the double is exact or lies above
floatify(a) ==
    LET m == IF a < 0 THEN -a ELSE a
        r == IF m % 10 = 5 /\ DoubleBelow(m) THEN m - 5 ELSE ((m + 5) \div 10) * 10
    IN  IF a < 0 THEN -r ELSE r

\* Partition.__init__: the fields are the numify'd strings of the row
PartitionInit(row, max_size) ==
    [number   |-> row.number,
     start    |-> row.start,
     end      |-> IF StrLessThanInt(row.end, 0) THEN max_size ELSE row.end,
     max_size |-> max_size]

equal(a, b) == floatify(a) = floatify(b)

\* same, with the candidate's end compared as given: a negative end is not
\* resolved to max_size
same_NoSentinel(self, start, end) ==
    equal(self.start, start) /\ equal(self.end, end)

\* int(x) of a number: the fraction is dropped, towards zero
PyInt(x) == IF x < 0 THEN -Milli((-x) \div 1000) ELSE Milli(x \div 1000)

\* same, lines 83-88: a_end = int(end), replaced by max_size when negative
same(self, start, end) ==
    LET a_end == IF PyInt(end) < 0 THEN self.max_size ELSE PyInt(end)
    IN  equal(self.start, start) /\ equal(self.end, a_end)

\* overlaps without the case of adjacent blocks of lines 104-106
overlaps_NoAdjacency(self, start, end) ==
    LET start_a == floatify(start)
        start_b == floatify(self.start)
        end_a   == floatify(IF end < 0 THEN self.max_size ELSE end)
        end_b   == floatify(self.end)
    IN  end_a >= start_b /\ start_a <= end_b

overlaps(self, start, end) ==
    LET start_a == floatify(start)
        start_b == floatify(self.start)
        end_a   == floatify(IF end < 0 THEN self.max_size ELSE end)
        end_b   == floatify(self.end)
    IN  IF start_a = end_b \/ end_a = start_b
        THEN FALSE
        ELSE end_a >= start_b /\ start_a <= end_b

---------------------------------------------------------------------------
(* The device behind run_command: parted and the disk *)

GridPoints == {Milli(n) : n \in 0..DiskUnits}

Ranges == [start : GridPoints, end : {g + d : g \in GridPoints, d \in Drifts}]

\* partitions of a disk: not empty at the two decimals of a report, inside the
\* disk, and each one either after the ones listed before it or inside one of
\* them (a logical partition inside an extended one: part_type is primary or
\* extended, line 191)
WellFormed(s) ==
    /\ \A i \in 1..Len(s) :
          s[i].start < floatify(s[i].end) /\ floatify(s[i].end) <= DiskSize
    /\ \A i, j \in 1..Len(s) :
          i < j => \/ floatify(s[i].end) <= s[j].start
                   \/ s[i].start <= s[j].start /\ floatify(s[j].end) <= floatify(s[i].end)

\* the partition tables the device may hold when the first run starts, as parted
\* reports them: numbered from 1 in report order
Layouts ==
    {[i \in 1..Len(s) |-> [number |-> i, start |-> s[i].start, end |-> s[i].end]] :
        s \in {t \in UNION {[1..n -> Ranges] : n \in 0..MaxParts} : WellFormed(t)}}

\* one run_command call, as the log keeps it
Call(cmd, lbl, number, start, end, rc) ==
    [cmd |-> cmd, label |-> lbl, number |-> number, start |-> start, end |-> end,
     rc |-> rc, stdout |-> "", stderr |-> IF rc = 0 THEN "" ELSE "Error: " \o cmd]

Fails(log) == Cardinality({i \in 1..Len(log) : log[i].rc # 0})

\* the exit codes the tool may give to the next command
ExitCodes == IF Fails(cmds) + Fails(prev) < MaxFails THEN {0, 1} ELSE {0}

Numbers(parts) == {parts[i].number : i \in 1..Len(parts)}

RECURSIVE Without(_, _)
Without(parts, number) ==
    IF parts = <<>> THEN <<>>
    ELSE IF Head(parts).number = number THEN Without(Tail(parts), number)
    ELSE <<Head(parts)>> \o Without(Tail(parts), number)

RECURSIVE Inserted(_, _)
Inserted(parts, row) ==
    IF parts = <<>> THEN <<row>>
    ELSE IF row.number < Head(parts).number THEN <<row>> \o parts
    ELSE <<Head(parts)>> \o Inserted(Tail(parts), row)

FreeNumber(parts) ==
    CHOOSE n \in 1..Len(parts) + 1 :
        /\ n \notin Numbers(parts)
        /\ \A m \in 1..n - 1 : m \in Numbers(parts)

\* "end < 0" of mkpart: through the end of the disk
DevEnd(end) == IF end < 0 THEN DiskSize ELSE end

\* parted refuses a range that is empty or outside the disk
MkpartPossible(start, end) == 0 <= start /\ start < DevEnd(end) /\ DevEnd(end) <= DiskSize

\* the device after "mklabel": a new, empty partition table
DevMklabel(lbl) == devLabel' = lbl /\ devParts' = <<>>

\* the device after "rm number"
DevRm(number) == devParts' = Without(devParts, number) /\ UNCHANGED devLabel

\* the device after "mkpart start end"
DevMkpart(start, end) ==
    /\ devParts' = Inserted(devParts,
                     [number |-> FreeNumber(devParts), start |-> start, end |-> DevEnd(end)])
    /\ UNCHANGED devLabel

---------------------------------------------------------------------------
(* PartitionTable *)

\* the command line of a call: the command and what was formatted into it
CmdLine(call) ==
    [cmd |-> call.cmd, label |-> call.label, number |-> call.number,
     start |-> call.start, end |-> call.end]

NoCmd == [cmd |-> "none", label |-> "", number |-> 0, start |-> 0, end |-> 0]

NoError == [kind |-> "none", rc |-> 0, stdout |-> "", stderr |-> "", cmd |-> NoCmd]

\* ValueError("{} {} {} {}".format(rc, stdout, stderr, cmd))
ValueError(call) ==
    [kind |-> "ValueError", rc |-> call.rc, stdout |-> call.stdout,
     stderr |-> call.stderr, cmd |-> CmdLine(call)]

\* reading self.label or self.table before any refresh has set them
AttributeError ==
    [kind |-> "AttributeError", rc |-> 0, stdout |-> "", stderr |-> "", cmd |-> NoCmd]

\* refresh: "parted {device} unit {unit} print", then the parse of its output
refresh(rc) ==
    /\ cmds' = Append(cmds, Call("print", "", 0, 0, 0, rc))
    /\ IF rc # 0
       THEN UNCHANGED <<loaded, label, size, table>>
       ELSE /\ loaded' = TRUE
            /\ label' = devLabel
            /\ size' = DiskSize
            /\ table' = [i \in 1..Len(devParts) |-> PartitionInit(devParts[i], DiskSize)]

Abort(e) ==
    /\ pc' = "aborted"
    /\ error' = e

---------------------------------------------------------------------------
(* main: set_label, then set_partition, then exit_json *)

\* the arguments and the result of a call, while main runs: none
NoCall == <<>>

\* main() starts, in check mode or not
Start(mode) ==
    /\ check_mode = mode
    /\ arg = NoCall
    /\ out = NoCall
    /\ pc = "set_label"
    /\ run = 1
    /\ dLabel \in Labels
    /\ dStart \in {Milli(n) : n \in 0..DiskUnits - 1}
    /\ dEnd \in {Milli(n) : n \in {-1} \cup 1..DiskUnits}
    /\ devLabel \in Labels
    /\ devParts \in Layouts
    /\ loaded = FALSE
    /\ label = ""
    /\ size = 0
    /\ table = <<>>
    /\ idx = 1
    /\ cmds = <<>>
    /\ prev = <<>>
    /\ changed_label = FALSE
    /\ changed_table = FALSE
    /\ result = [done |-> FALSE, changed |-> FALSE, partition_table |-> <<>>]
    /\ error = NoError

Init == Start(FALSE)

\* set_label, line 141: self.refresh(run_command)
SetLabelRefresh ==
    /\ pc = "set_label"
    /\ \E rc \in ExitCodes : refresh(rc)
    /\ pc' = "set_label_compare"
    /\ UNCHANGED <<run, check_mode, arg, out, dLabel, dStart, dEnd, devLabel, devParts, idx, prev,
                   changed_label, changed_table, result, error>>

\* the comparison of line 143 lost: mklabel whatever the label is
SetLabelCompare_Always ==
    /\ pc = "set_label_compare"
    /\ IF ~loaded
       THEN Abort(AttributeError) /\ UNCHANGED changed_label
       ELSE pc' = "mklabel" /\ UNCHANGED <<changed_label, error>>
    /\ UNCHANGED <<run, check_mode, arg, out, dLabel, dStart, dEnd, devLabel, devParts, loaded, label, size,
                   table, idx, cmds, prev, changed_table, result>>

\* set_label, lines 143-144: if self.label == label: return False
SetLabelCompare ==
    /\ pc = "set_label_compare"
    /\ IF ~loaded
       THEN Abort(AttributeError) /\ UNCHANGED changed_label
       ELSE IF label = dLabel
       THEN pc' = "set_partition" /\ changed_label' = FALSE /\ UNCHANGED error
       ELSE pc' = "mklabel" /\ UNCHANGED <<changed_label, error>>
    /\ UNCHANGED <<run, check_mode, arg, out, dLabel, dStart, dEnd, devLabel, devParts, loaded, label, size,
                   table, idx, cmds, prev, changed_table, result>>

\* a failed mklabel raised like a failed rm
SetLabelMklabel_Raise ==
    /\ pc = "mklabel"
    /\ \E rc \in ExitCodes :
          /\ cmds' = Append(cmds, Call("mklabel", dLabel, 0, 0, 0, rc))
          /\ IF rc # 0
             THEN /\ Abort(ValueError(Call("mklabel", dLabel, 0, 0, 0, rc)))
                  /\ UNCHANGED <<changed_label, devLabel, devParts>>
             ELSE /\ pc' = "set_label_refresh2"
                  /\ DevMklabel(dLabel)
                  /\ UNCHANGED <<changed_label, error>>
    /\ UNCHANGED <<run, check_mode, arg, out, dLabel, dStart, dEnd, loaded, label, size, table, idx, prev,
                   changed_table, result>>

\* set_label, lines 146-149: mklabel; a non-zero exit returns False
SetLabelMklabel ==
    /\ pc = "mklabel"
    /\ \E rc \in ExitCodes :
          /\ cmds' = Append(cmds, Call("mklabel", dLabel, 0, 0, 0, rc))
          /\ IF rc # 0
             THEN /\ pc' = "set_partition"
                  /\ changed_label' = FALSE
                  /\ UNCHANGED <<devLabel, devParts>>
             ELSE /\ pc' = "set_label_refresh2"
                  /\ DevMklabel(dLabel)
                  /\ UNCHANGED changed_label
    /\ UNCHANGED <<run, check_mode, arg, out, dLabel, dStart, dEnd, loaded, label, size, table, idx, prev,
                   changed_table, result, error>>

\* set_label, lines 150-151: refresh again, return True
SetLabelRefresh2 ==
    /\ pc = "set_label_refresh2"
    /\ \E rc \in ExitCodes : refresh(rc)
    /\ pc' = "set_partition"
    /\ changed_label' = TRUE
    /\ UNCHANGED <<run, check_mode, arg, out, dLabel, dStart, dEnd, devLabel, devParts, idx, prev,
                   changed_table, result, error>>

\* line 157 with only the first record looked at
AnySame_FirstOnly(t, start, end) == t # <<>> /\ same(t[1], start, end)

\* line 157: len(filter(lambda partition: partition.same(start, end), self.table)) > 0
AnySame(t, start, end) == \E i \in 1..Len(t) : same(t[i], start, end)

\* set_partition, line 155: self.refresh(run_command)
SetPartitionRefresh ==
    /\ pc = "set_partition"
    /\ \E rc \in ExitCodes : refresh(rc)
    /\ pc' = "set_partition_same"
    /\ UNCHANGED <<run, check_mode, arg, out, dLabel, dStart, dEnd, devLabel, devParts, idx, prev,
                   changed_label, changed_table, result, error>>

\* set_partition, lines 157-158: some record is the same: return False
SetPartitionSame ==
    /\ pc = "set_partition_same"
    /\ IF ~loaded
       THEN Abort(AttributeError) /\ UNCHANGED <<changed_table, idx>>
       ELSE IF AnySame(table, dStart, dEnd)
       THEN pc' = "exit_json" /\ changed_table' = FALSE /\ UNCHANGED <<error, idx>>
       ELSE pc' = "remove" /\ idx' = 1 /\ UNCHANGED <<changed_table, error>>
    /\ UNCHANGED <<run, check_mode, arg, out, dLabel, dStart, dEnd, devLabel, devParts, loaded, label, size,
                   table, cmds, prev, changed_label, result>>

\* set_partition, lines 161-162: a record of the loop that does not overlap
SetPartitionSkip ==
    /\ pc = "remove"
    /\ idx <= Len(table)
    /\ ~overlaps(table[idx], dStart, dEnd)
    /\ idx' = idx + 1
    /\ UNCHANGED <<pc, run, check_mode, arg, out, dLabel, dStart, dEnd, devLabel, devParts, loaded, label,
                   size, table, cmds, prev, changed_label, changed_table, result, error>>

\* the loop left after its first rm
SetPartitionRm_OnlyFirst ==
    /\ pc = "remove"
    /\ idx <= Len(table)
    /\ overlaps(table[idx], dStart, dEnd)
    /\ \E rc \in ExitCodes :
          LET call == Call("rm", "", table[idx].number, 0, 0, rc) IN
          /\ cmds' = Append(cmds, call)
          /\ IF rc # 0
             THEN Abort(ValueError(call)) /\ UNCHANGED <<devLabel, devParts, idx>>
             ELSE DevRm(table[idx].number) /\ idx' = Len(table) + 1 /\ UNCHANGED <<pc, error>>
    /\ UNCHANGED <<run, check_mode, arg, out, dLabel, dStart, dEnd, loaded, label, size, table, prev,
                   changed_label, changed_table, result>>

\* a failed rm passed over: the loop goes on
SetPartitionRm_Continue ==
    /\ pc = "remove"
    /\ idx <= Len(table)
    /\ overlaps(table[idx], dStart, dEnd)
    /\ \E rc \in ExitCodes :
          LET call == Call("rm", "", table[idx].number, 0, 0, rc) IN
          /\ cmds' = Append(cmds, call)
          /\ IF rc # 0
             THEN idx' = idx + 1 /\ UNCHANGED <<devLabel, devParts, pc, error>>
             ELSE DevRm(table[idx].number) /\ idx' = idx + 1 /\ UNCHANGED <<pc, error>>
    /\ UNCHANGED <<run, check_mode, arg, out, dLabel, dStart, dEnd, loaded, label, size, table, prev,
                   changed_label, changed_table, result>>

\* the test of line 162 lost: rm for whatever record the loop is at
SetPartitionRm_All ==
    /\ pc = "remove"
    /\ idx <= Len(table)
    /\ \E rc \in ExitCodes :
          LET call == Call("rm", "", table[idx].number, 0, 0, rc) IN
          /\ cmds' = Append(cmds, call)
          /\ IF rc # 0
             THEN Abort(ValueError(call)) /\ UNCHANGED <<devLabel, devParts, idx>>
             ELSE DevRm(table[idx].number) /\ idx' = idx + 1 /\ UNCHANGED <<pc, error>>
    /\ UNCHANGED <<run, check_mode, arg, out, dLabel, dStart, dEnd, loaded, label, size, table, prev,
                   changed_label, changed_table, result>>

\* set_partition, lines 162-169: rm of an overlapping record; a non-zero exit raises
SetPartitionRm ==
    /\ pc = "remove"
    /\ idx <= Len(table)
    /\ overlaps(table[idx], dStart, dEnd)
    /\ \E rc \in ExitCodes :
          LET call == Call("rm", "", table[idx].number, 0, 0, rc) IN
          /\ cmds' = Append(cmds, call)
          /\ IF rc # 0
             THEN Abort(ValueError(call)) /\ UNCHANGED <<devLabel, devParts, idx>>
             ELSE DevRm(table[idx].number) /\ idx' = idx + 1 /\ UNCHANGED <<pc, error>>
    /\ UNCHANGED <<run, check_mode, arg, out, dLabel, dStart, dEnd, loaded, label, size, table, prev,
                   changed_label, changed_table, result>>

\* a failed mkpart passed over: set_partition goes on to refresh and return True
SetPartitionMkpart_Ignore ==
    /\ pc = "remove"
    /\ idx > Len(table)
    /\ \E rc \in IF MkpartPossible(dStart, dEnd) THEN ExitCodes ELSE {1} :
          LET call == Call("mkpart", "", 0, dStart, dEnd, rc) IN
          /\ cmds' = Append(cmds, call)
          /\ IF rc # 0
             THEN pc' = "set_partition_refresh2" /\ UNCHANGED <<devLabel, devParts, error>>
             ELSE DevMkpart(dStart, dEnd) /\ pc' = "set_partition_refresh2" /\ UNCHANGED error
    /\ UNCHANGED <<run, check_mode, arg, out, dLabel, dStart, dEnd, loaded, label, size, table, idx, prev,
                   changed_label, changed_table, result>>

\* set_partition, lines 172-181: mkpart; a non-zero exit raises
SetPartitionMkpart ==
    /\ pc = "remove"
    /\ idx > Len(table)
    /\ \E rc \in IF MkpartPossible(dStart, dEnd) THEN ExitCodes ELSE {1} :
          LET call == Call("mkpart", "", 0, dStart, dEnd, rc) IN
          /\ cmds' = Append(cmds, call)
          /\ IF rc # 0
             THEN Abort(ValueError(call)) /\ UNCHANGED <<devLabel, devParts>>
             ELSE DevMkpart(dStart, dEnd) /\ pc' = "set_partition_refresh2" /\ UNCHANGED error
    /\ UNCHANGED <<run, check_mode, arg, out, dLabel, dStart, dEnd, loaded, label, size, table, idx, prev,
                   changed_label, changed_table, result>>

\* return True without the refresh of line 182
SetPartitionRefresh2_NoRefresh ==
    /\ pc = "set_partition_refresh2"
    /\ UNCHANGED <<cmds, loaded, label, size, table>>
    /\ pc' = "exit_json"
    /\ changed_table' = TRUE
    /\ UNCHANGED <<run, check_mode, arg, out, dLabel, dStart, dEnd, devLabel, devParts, idx, prev,
                   changed_label, result, error>>

\* set_partition, lines 182-183: refresh again, return True
SetPartitionRefresh2 ==
    /\ pc = "set_partition_refresh2"
    /\ \E rc \in ExitCodes : refresh(rc)
    /\ pc' = "exit_json"
    /\ changed_table' = TRUE
    /\ UNCHANGED <<run, check_mode, arg, out, dLabel, dStart, dEnd, devLabel, devParts, idx, prev,
                   changed_label, result, error>>

\* main, lines 209-211: the result handed to exit_json
ExitJson ==
    /\ pc = "exit_json"
    /\ result' = [done |-> TRUE, changed |-> changed_label \/ changed_table,
                  partition_table |-> table]
    /\ pc' = "done"
    /\ UNCHANGED <<run, check_mode, arg, out, dLabel, dStart, dEnd, devLabel, devParts, loaded, label, size,
                   table, idx, cmds, prev, changed_label, changed_table, error>>

\* the module is invoked again with the same parameters: a new process, a new
\* PartitionTable (lines 204-205)
NextRun ==
    /\ pc = "done"
    /\ run < MaxRuns
    /\ run' = run + 1
    /\ pc' = "set_label"
    /\ loaded' = FALSE
    /\ label' = ""
    /\ size' = 0
    /\ table' = <<>>
    /\ idx' = 1
    /\ prev' = cmds
    /\ cmds' = <<>>
    /\ changed_label' = FALSE
    /\ changed_table' = FALSE
    /\ result' = [done |-> FALSE, changed |-> FALSE, partition_table |-> <<>>]
    /\ UNCHANGED <<check_mode, arg, out, dLabel, dStart, dEnd, devLabel, devParts, error>>

Next ==
    \/ SetLabelRefresh
    \/ SetLabelCompare
    \/ SetLabelMklabel
    \/ SetLabelRefresh2
    \/ SetPartitionRefresh
    \/ SetPartitionSame
    \/ SetPartitionSkip
    \/ SetPartitionRm
    \/ SetPartitionMkpart
    \/ SetPartitionRefresh2
    \/ ExitJson
    \/ NextRun

Spec == Init /\ [][Next]_vars

\* the module run by "ansible --check"
InitCheckMode == Start(TRUE)

SpecCheckMode == InitCheckMode /\ [][Next]_vars

---------------------------------------------------------------------------
(* Partition on its own: the constructor, then same or overlaps, called with
   a row, a disk size and a candidate range *)

\* main is not running
Idle ==
    /\ check_mode = FALSE
    /\ run = 1
    /\ dLabel = "gpt"
    /\ dStart = 0
    /\ dEnd = 0
    /\ devLabel = "gpt"
    /\ devParts = <<>>
    /\ loaded = FALSE
    /\ label = ""
    /\ size = 0
    /\ table = <<>>
    /\ idx = 1
    /\ cmds = <<>>
    /\ prev = <<>>
    /\ changed_label = FALSE
    /\ changed_table = FALSE
    /\ result = [done |-> FALSE, changed |-> FALSE, partition_table |-> <<>>]
    /\ error = NoError

IdleVars == <<check_mode, run, dLabel, dStart, dEnd, devLabel, devParts, loaded, label,
              size, table, idx, cmds, prev, changed_label, changed_table, result, error>>

\* fractions of a unit that a reported value may carry: none, 0.004, 0.005
\* (a tie of round(_, 2)), one half
Fractions == {0, 4, 5, 500}

\* the values of Start, End and of the disk size in a report
Values == {Milli(n) + f : n \in 0..DiskUnits, f \in Fractions}

\* negative ends: -1 and -2
Negatives == {Milli(-1), Milli(-2)}

PartitionArgs ==
    [row      : [number : {1}, start : Values, end : Values \cup {Milli(-1)}],
     max_size : {DiskSize, DiskSize + 500},
     start    : Values,
     end      : Values \cup Negatives]

PartitionInitial ==
    /\ Idle
    /\ pc = "new"
    /\ arg \in PartitionArgs
    /\ out = [fn |-> "none", self |-> NoCall, value |-> FALSE]

\* Partition(table, max_size), lines 72-80
PartitionNew ==
    /\ pc = "new"
    /\ out' = [fn |-> "Partition", self |-> PartitionInit(arg.row, arg.max_size),
               value |-> FALSE]
    /\ pc' = "built"
    /\ UNCHANGED <<arg, IdleVars>>

\* partition.same(start, end), lines 82-90
CallSame ==
    /\ pc = "built"
    /\ out' = [fn |-> "same", self |-> out.self,
               value |-> same(out.self, arg.start, arg.end)]
    /\ pc' = "returned"
    /\ UNCHANGED <<arg, IdleVars>>

\* partition.overlaps(start, end), lines 92-108
CallOverlaps ==
    /\ pc = "built"
    /\ out' = [fn |-> "overlaps", self |-> out.self,
               value |-> overlaps(out.self, arg.start, arg.end)]
    /\ pc' = "returned"
    /\ UNCHANGED <<arg, IdleVars>>

PartitionNext ==
    \/ PartitionNew
    \/ CallSame
    \/ CallOverlaps

SpecPartition == PartitionInitial /\ [][PartitionNext]_vars

---------------------------------------------------------------------------
(* Vocabulary of the properties *)

Mutating == {"mklabel", "rm", "mkpart"}

Issued(log, kinds) == {i \in 1..Len(log) : log[i].cmd \in kinds}

Succeeded(log, kinds) == {i \in Issued(log, kinds) : log[i].rc = 0}

\* how many calls of the log set_label made: its report, its mklabel, and
\* its second report after a mklabel that exited zero
SetLabelCalls(log) ==
    IF log = <<>> THEN 0
    ELSE IF Len(log) >= 2 /\ log[2].cmd = "mklabel"
    THEN (IF log[2].rc = 0 /\ Len(log) >= 3 THEN 3 ELSE 2)
    ELSE 1

\* the calls set_partition has made so far, once it has started
SetPartitionCalls(log) == SubSeq(log, SetLabelCalls(log) + 1, Len(log))

\* main is inside set_partition, lines 154-183
InSetPartition ==
    pc \in {"set_partition", "set_partition_same", "remove", "set_partition_refresh2"}

SameInTable == \E i \in 1..Len(table) : same(table[i], dStart, dEnd)

RECURSIVE RmCalls(_)
\* one successful rm per overlapping record of a table, in table order
RmCalls(t) ==
    IF t = <<>> THEN <<>>
    ELSE (IF overlaps(Head(t), dStart, dEnd)
          THEN <<Call("rm", "", Head(t).number, 0, 0, 0)>> ELSE <<>>)
         \o RmCalls(Tail(t))

Last(log) == log[Len(log)]

\* what a successful report of the device's partitions is parsed into
ReportedTable ==
    [i \in 1..Len(devParts) |->
        [number |-> devParts[i].number, start |-> devParts[i].start,
         end |-> devParts[i].end, max_size |-> DiskSize]]

\* set_label has just returned / set_partition has just returned
SetLabelReturned == pc = "set_partition"
SetPartitionReturned == pc = "exit_json"

TypeOK ==
    /\ pc \in {"set_label", "set_label_compare", "mklabel", "set_label_refresh2",
               "set_partition", "set_partition_same", "remove",
               "set_partition_refresh2", "exit_json", "done", "aborted"}
    /\ run \in 1..MaxRuns
    /\ loaded \in BOOLEAN

---------------------------------------------------------------------------
(* C1: run-level idempotence *)

\* C1 as stated: whenever a run has completed without aborting, the run that
\* follows it with the same parameters issues no mklabel, rm or mkpart, and
\* reports changed = false.
C1_Original ==
    run > 1 => /\ Issued(cmds, Mutating) = {}
               /\ result.done => ~result.changed

\* C1, amended: when a run has completed without aborting and every command
\* it issued exited zero, the run that follows it with the same parameters
\* issues no mklabel, rm or mkpart, and reports changed = false if it
\* completes.
C1_Idempotent ==
    (run > 1 /\ Fails(prev) = 0) =>
        /\ Issued(cmds, Mutating) = {}
        /\ result.done => ~result.changed

\* a second run has completed after a first run that removed a partition and
\* created the desired one
C1_Witness ==
    /\ run = 2
    /\ result.done
    /\ Fails(prev) = 0
    /\ Succeeded(prev, {"rm"}) # {}
    /\ Succeeded(prev, {"mkpart"}) # {}
    /\ dEnd < 0

---------------------------------------------------------------------------
(* C2: the idempotency short-circuit of set_partition *)

\* C2: when the table that set_partition reads after its first refresh holds
\* a record that is the same as (start, end), set_partition returns False at
\* once: it makes no further call and reports unchanged, whatever the other
\* records are.
C2_ShortCircuit ==
    [][(pc = "set_partition_same" /\ SameInTable) =>
          (pc' = "exit_json" /\ changed_table' = FALSE /\ cmds' = cmds
             /\ devParts' = devParts)]_vars
    /\ [](pc = "exit_json" /\ ~changed_table =>
             /\ Issued(SetPartitionCalls(cmds), Mutating) = {}
             /\ Len(SetPartitionCalls(cmds)) = 1)

\* set_partition has returned False on a table with a same record and another
\* record that overlaps the desired range
C2_Witness ==
    /\ pc = "exit_json"
    /\ ~changed_table
    /\ \E i, j \in 1..Len(table) :
          /\ same(table[i], dStart, dEnd)
          /\ i # j
          /\ overlaps(table[j], dStart, dEnd)

---------------------------------------------------------------------------
(* C3: conflict resolution *)

\* C3: when no record of the table is the same as (start, end) and every call
\* succeeds, set_partition issues, after its report, one rm for each record
\* that overlaps (start, end), in table order and with that record's number,
\* then one mkpart, then a report, and returns True.
C3_ConflictResolution ==
    /\ [][(pc = "set_partition_same" /\ ~SameInTable) =>
             (pc' = "remove" /\ idx' = 1 /\ cmds' = cmds)]_vars
    /\ []((pc = "set_partition_refresh2" /\ Fails(SetPartitionCalls(cmds)) = 0) =>
             SetPartitionCalls(cmds) =
                 <<Call("print", "", 0, 0, 0, 0)>> \o RmCalls(table)
                     \o <<Call("mkpart", "", 0, dStart, dEnd, 0)>>)
    /\ [][pc = "set_partition_refresh2" =>
             /\ \E rc \in {0, 1} : cmds' = Append(cmds, Call("print", "", 0, 0, 0, rc))
             /\ pc' = "exit_json"
             /\ changed_table' = TRUE]_vars

\* set_partition has returned True after two rm, a mkpart and a report, all
\* of them successful
C3_Witness ==
    /\ pc = "exit_json"
    /\ changed_table
    /\ Fails(cmds) = 0
    /\ Cardinality(Succeeded(SetPartitionCalls(cmds), {"rm"})) = 2
    /\ Succeeded(SetPartitionCalls(cmds), {"mkpart"}) # {}

---------------------------------------------------------------------------
(* C4: a failed rm is fatal *)

\* C4: a rm that exits non-zero is the last call of the run: the run is
\* aborted by an error that carries the command, the exit code, stdout and
\* stderr of that rm, and exit_json receives nothing.
C4_FatalRemoval ==
    \A i \in Issued(cmds, {"rm"}) :
        cmds[i].rc # 0 =>
            /\ i = Len(cmds)
            /\ pc = "aborted"
            /\ error = ValueError(cmds[i])
            /\ error.cmd.number = cmds[i].number
            /\ ~result.done

\* the second rm of a run has failed
C4_Witness ==
    /\ pc = "aborted"
    /\ Cardinality(Issued(cmds, {"rm"})) = 2
    /\ cmds[Len(cmds)].cmd = "rm"
    /\ cmds[Len(cmds)].rc # 0

---------------------------------------------------------------------------
(* C5: a failed mkpart is fatal *)

\* C5: a mkpart that exits non-zero aborts the run with an error that carries
\* its command, exit code, stdout and stderr, and set_partition returns True
\* only after a mkpart that exited zero.
C5_FatalCreation ==
    /\ \A i \in Issued(cmds, {"mkpart"}) :
          cmds[i].rc # 0 =>
              /\ i = Len(cmds)
              /\ pc = "aborted"
              /\ error = ValueError(cmds[i])
              /\ ~changed_table
              /\ ~result.done
    /\ changed_table => Succeeded(SetPartitionCalls(cmds), {"mkpart"}) # {}

\* a mkpart has failed after a successful rm
C5_Witness ==
    /\ pc = "aborted"
    /\ Succeeded(cmds, {"rm"}) # {}
    /\ cmds[Len(cmds)].cmd = "mkpart"
    /\ cmds[Len(cmds)].rc # 0
    /\ MkpartPossible(dStart, dEnd)

---------------------------------------------------------------------------
(* C6: a failed report *)

\* C6 as stated: whenever the report exits non-zero, refresh does not raise
\* and leaves label = "", size = "" and partitions = [], on the first refresh
\* of a run as after an earlier successful one, and the run goes on from
\* these empty values (it does not stop on a missing attribute).
C6_ReportFailure ==
    (cmds # <<>> /\ Last(cmds).cmd = "print" /\ Last(cmds).rc # 0) =>
        /\ loaded
        /\ label = ""
        /\ size = 0
        /\ table = <<>>
        /\ error.kind # "AttributeError"

---------------------------------------------------------------------------
(* C7: label reconciliation *)

\* C7: once its first refresh has read the label, set_label makes no call and
\* returns False when the label equals the desired one; when it differs,
\* set_label issues one mklabel for the desired label, and when that mklabel
\* exits zero it issues a report and returns True. No run issues two mklabel.
C7_LabelReconciliation ==
    /\ [][(pc = "set_label_compare" /\ loaded) =>
             /\ cmds' = cmds
             /\ IF label = dLabel
                THEN pc' = "set_partition" /\ changed_label' = FALSE
                ELSE pc' = "mklabel"]_vars
    /\ [][pc = "mklabel" =>
             \E rc \in {0, 1} :
                /\ cmds' = Append(cmds, Call("mklabel", dLabel, 0, 0, 0, rc))
                /\ pc' = IF rc = 0 THEN "set_label_refresh2" ELSE "set_partition"]_vars
    /\ [][pc = "set_label_refresh2" =>
             /\ \E rc \in {0, 1} : cmds' = Append(cmds, Call("print", "", 0, 0, 0, rc))
             /\ pc' = "set_partition"
             /\ changed_label' = TRUE]_vars
    /\ [](Cardinality(Issued(cmds, {"mklabel"})) <= 1)

\* set_label has returned True after one successful mklabel
C7_Witness ==
    /\ SetLabelReturned
    /\ changed_label
    /\ Cardinality(Succeeded(cmds, {"mklabel"})) = 1
    /\ Last(cmds).cmd = "print"
    /\ label = dLabel

---------------------------------------------------------------------------
(* C8: a failed mklabel is absorbed *)

\* C8: when mklabel exits non-zero, set_label returns False without raising,
\* set_partition is entered next (its report is the next call), and the
\* changed flag handed to exit_json is changed_label or changed_table.
C8_LabelFailureAbsorbed ==
    /\ \A i \in Issued(cmds, {"mklabel"}) :
          cmds[i].rc # 0 =>
              /\ ~changed_label
              /\ i = Len(cmds) => pc = "set_partition" /\ error = NoError
              /\ i < Len(cmds) => cmds[i + 1].cmd = "print"
    /\ result.done => result.changed = (changed_label \/ changed_table)

\* a run has completed and reported changed: its mklabel failed, its mkpart
\* succeeded
C8_Witness ==
    /\ result.done
    /\ result.changed
    /\ Issued(cmds, {"mklabel"}) # {}
    /\ Succeeded(cmds, {"mklabel"}) = {}
    /\ Succeeded(cmds, {"mkpart"}) # {}

---------------------------------------------------------------------------
(* C9: the reported result *)

\* C9 as stated: when a run completes, changed is true exactly when a mklabel,
\* rm or mkpart of the run exited zero, and the partition list handed to
\* exit_json is the one of the last report of the run, which follows the last
\* mutating command: the partitions the device then has, or the empty list
\* of C6 when that report exited non-zero.
C9_AccurateReport ==
    result.done =>
        /\ result.changed = (Succeeded(cmds, Mutating) # {})
        /\ Last(cmds).cmd = "print"
        /\ \/ result.partition_table = ReportedTable
           \/ Last(cmds).rc # 0 /\ result.partition_table = <<>>

---------------------------------------------------------------------------
(* C10: refresh discipline *)

\* each operation starts with a report: the label and the table are read, and
\* mutating commands issued, only after it
ReportFirst ==
    /\ cmds # <<>> => cmds[1].cmd = "print"
    /\ pc \in {"set_label_compare", "set_partition_same"} => Last(cmds).cmd = "print"
    /\ ((InSetPartition /\ pc # "set_partition") \/ SetPartitionReturned) =>
           SetPartitionCalls(cmds)[1].cmd = "print"

\* an operation that returns after a successful mutating command of its own
\* has issued a report after it
ReportAfter ==
    /\ (SetLabelReturned /\ Succeeded(cmds, {"mklabel"}) # {}) =>
           Last(cmds).cmd = "print"
    /\ (SetPartitionReturned /\ Succeeded(SetPartitionCalls(cmds), Mutating) # {}) =>
           Last(cmds).cmd = "print"

\* an operation has returned after a successful mutating command of its own
ReturnedAfterChange ==
    \/ SetLabelReturned /\ Succeeded(cmds, {"mklabel"}) # {}
    \/ SetPartitionReturned /\ Succeeded(SetPartitionCalls(cmds), Mutating) # {}

InSync == loaded /\ label = devLabel /\ table = ReportedTable

\* C10 as stated: a report precedes every read of the table and every
\* mutating command of an operation, a report follows the last successful
\* mutating command of an operation that returns, and so the label and the
\* partitions in memory equal the device's when the operation returns.
C10_Original ==
    /\ ReportFirst
    /\ ReportAfter
    /\ ReturnedAfterChange => InSync

\* C10, amended: a report precedes every read of the table and every mutating
\* command of an operation, a report follows the last successful mutating
\* command of an operation that returns, and when that report exits zero the
\* label and the partitions in memory equal the device's when the operation
\* returns.
C10_RefreshDiscipline ==
    /\ ReportFirst
    /\ ReportAfter
    /\ (ReturnedAfterChange /\ Last(cmds).rc = 0) => InSync

\* set_partition has returned after a rm, a mkpart and a successful report
C10_Witness ==
    /\ SetPartitionReturned
    /\ Succeeded(SetPartitionCalls(cmds), {"rm"}) # {}
    /\ Succeeded(SetPartitionCalls(cmds), {"mkpart"}) # {}
    /\ Last(cmds).cmd = "print"
    /\ Last(cmds).rc = 0
    /\ InSync

---------------------------------------------------------------------------
(* C11: the overlap predicate *)

\* overlaps has returned for a record and a candidate range
OverlapsReturned == pc = "returned" /\ out.fn = "overlaps"

\* same has returned for a record and a candidate range
SameReturned == pc = "returned" /\ out.fn = "same"

\* the candidate's end, a negative one standing for the size of the disk
ResolvedEnd == IF arg.end < 0 THEN arg.max_size ELSE arg.end

\* C11: with the candidate's end resolved and all values rounded to two
\* decimals, overlaps is false when the candidate starts where the record
\* ends or ends where the record starts, and otherwise true exactly when the
\* candidate ends at or after the record's start and starts at or before the
\* record's end.
C11_Overlaps ==
    OverlapsReturned =>
        LET cs == floatify(arg.start)
            ce == floatify(ResolvedEnd)
            rs == floatify(out.self.start)
            re == floatify(out.self.end)
        IN  /\ (cs = re \/ ce = rs) => ~out.value
            /\ ~(cs = re \/ ce = rs) => (out.value <=> (ce >= rs /\ cs <= re))

\* the record 0..1 and the candidate 1..2: adjacent, and reported as not
\* overlapping
C11_Witness ==
    /\ OverlapsReturned
    /\ out.self.start = 0
    /\ out.self.end = Milli(1)
    /\ arg.start = Milli(1)
    /\ arg.end = Milli(2)
    /\ ~out.value

---------------------------------------------------------------------------
(* C12: symmetry of overlaps *)

\* the record built from the candidate range, on the same disk
Swapped ==
    PartitionInit([number |-> 1, start |-> arg.start, end |-> arg.end], arg.max_size)

\* C12 as stated: for any two ranges A and B of a disk, the record built from
\* A overlaps B exactly when the record built from B overlaps A.
C12_Symmetric ==
    OverlapsReturned =>
        (out.value <=> overlaps(Swapped, arg.row.start, arg.row.end))

---------------------------------------------------------------------------
(* C13: a negative candidate end stands for the size of the disk *)

\* C13 as stated: for every record and every candidate start, same and
\* overlaps called with a negative end return what they return when called
\* with max_size as the end.
C13_SentinelEquivalent ==
    /\ (SameReturned /\ arg.end < 0) =>
           (out.value <=> same(out.self, arg.start, out.self.max_size))
    /\ (OverlapsReturned /\ arg.end < 0) =>
           (out.value <=> overlaps(out.self, arg.start, out.self.max_size))

---------------------------------------------------------------------------
(* C14: same is reflexive and tolerant of rounding *)

\* C14 as stated: same called with the start and the (resolved, so not
\* negative) end of the record itself is true, fractional values included,
\* and same is true only if the candidate's start and resolved end equal the
\* record's start and end once rounded to two decimals.
C14_SameReflexive ==
    SameReturned =>
        /\ (arg.start = out.self.start /\ arg.end = out.self.end /\ out.self.end >= 0)
               => out.value
        /\ out.value => /\ floatify(arg.start) = floatify(out.self.start)
                        /\ floatify(ResolvedEnd) = floatify(out.self.end)

---------------------------------------------------------------------------
(* C18: the constructor resolves a negative End *)

\* C18 as stated: a record built from a row whose End is negative has
\* end = max_size, and so start <= end when start <= max_size.
C18_SentinelResolved ==
    (pc # "new" /\ arg.row.end < 0) =>
        /\ out.self.end = arg.max_size
        /\ out.self.start <= out.self.max_size => out.self.start <= out.self.end

---------------------------------------------------------------------------
(* C17: minimal destruction *)

\* the rm calls set_partition has made
RmIssued ==
    LET calls == SetPartitionCalls(cmds)
    IN  {i \in 1..Len(calls) : calls[i].cmd = "rm"}

\* set_partition is past its first refresh and self.table is still the table
\* it read then
InRemoval ==
    \/ pc \in {"remove", "set_partition_refresh2"}
    \/ pc = "aborted" /\ error.kind = "ValueError"

\* a step of set_partition leaves on the device every partition that does not
\* overlap (start, end)
NonOverlappingKept ==
    pc \in {"set_partition", "set_partition_same", "remove", "set_partition_refresh2"} =>
        \A k \in 1..Len(devParts) :
           ~overlaps(PartitionInit(devParts[k], DiskSize), dStart, dEnd) =>
               \E n \in 1..Len(devParts') : devParts'[n] = devParts[k]

\* C17: every rm of set_partition carries the number of a record of the table
\* read at its start that overlaps (start, end), no number is removed twice,
\* and a partition of the device that does not overlap (start, end) is still
\* on the device, unchanged, after every step of set_partition.
C17_MinimalDestruction ==
    /\ [](InRemoval =>
            LET calls == SetPartitionCalls(cmds) IN
            /\ \A i \in RmIssued :
                  \E k \in 1..Len(table) :
                     /\ table[k].number = calls[i].number
                     /\ overlaps(table[k], dStart, dEnd)
            /\ \A i, j \in RmIssued : calls[i].number = calls[j].number => i = j)
    /\ [][NonOverlappingKept]_vars

\* set_partition has removed one of two partitions and created the new one:
\* the other partition, which does not overlap, is still on the device
C17_Witness ==
    /\ pc = "set_partition_refresh2"
    /\ Len(table) = 2
    /\ Cardinality(RmIssued) = 1
    /\ \E k \in 1..2 :
          /\ ~overlaps(table[k], dStart, dEnd)
          /\ \E n \in 1..Len(devParts) :
                devParts[n].number = table[k].number /\ devParts[n].start = table[k].start

---------------------------------------------------------------------------
(* C19: check mode *)

\* C19 as stated: a run in check mode issues no mklabel, rm or mkpart, only
\* reports.
C19_CheckModeNoChange ==
    check_mode => Issued(cmds, Mutating) = {}

---------------------------------------------------------------------------
(* read_fixed_width_table, lines 61-69, and the table section of the report,
   lines 128-137. A line is a sequence of one-character strings. *)

\* longest line of a table
LineLen == 4

\* most data rows of a table
MaxRows == 2

SeqsUpTo(S, n) == UNION {[1..k -> S] : k \in 0..n}

\* the title that opens the table section of the report, line 131
NumberTitle == <<"N", "u", "m", "b", "e", "r">>

\* the titles Partition.__init__ reads besides Number, lines 77-78
StartTitle == <<"S", "t", "a", "r", "t">>

EndTitle == <<"E", "n", "d">>

\* the header "Number Start End"
ReportHeader == NumberTitle \o <<" ">> \o StartTitle \o <<" ">> \o EndTitle

\* header lines: any line of blanks and the letters A and B, the line that
\* holds the title Number alone, and the line Number Start End
Headers ==
    (SeqsUpTo({" ", "A", "B"}, LineLen) \ {<<>>}) \cup {NumberTitle, ReportHeader}

\* data lines: any line of blanks and the letter x
Rows == SeqsUpTo({" ", "x"}, LineLen) \ {<<>>}

\* a header followed by data rows, or no line at all
Tables == {<<>>} \cup {<<h>> \o r : h \in Headers, r \in SeqsUpTo(Rows, MaxRows)}

RECURSIVE SplitFrom(_, _, _)
SplitFrom(line, i, word) ==
    LET done == IF word = <<>> THEN <<>> ELSE <<word>>
    IN  IF i > Len(line) THEN done
        ELSE IF line[i] = " " THEN done \o SplitFrom(line, i + 1, <<>>)
        ELSE SplitFrom(line, i + 1, Append(word, line[i]))

\* str.split(): the runs of non-blank characters, in order
split(line) == SplitFrom(line, 1, <<>>)

\* str.strip()
strip(line) ==
    LET inked == {i \in 1..Len(line) : line[i] # " "}
    IN  IF inked = {} THEN <<>>
        ELSE SubSeq(line, CHOOSE i \in inked : \A j \in inked : i <= j,
                          CHOOSE i \in inked : \A j \in inked : i >= j)

\* str.index(title): the offset, from 0, of the first place where title
\* occurs in line
index(line, title) ==
    LET at == {i \in 0..(Len(line) - Len(title)) :
                  SubSeq(line, i + 1, i + Len(title)) = title}
    IN  CHOOSE i \in at : \A j \in at : i <= j

\* str.startswith(prefix)
startswith(line, prefix) ==
    Len(line) >= Len(prefix) /\ SubSeq(line, 1, Len(prefix)) = prefix

\* a slice bound as Python reads it: a negative one counts from the end,
\* and both are cut to the line
SliceBound(i, n) ==
    IF i < 0 THEN (IF i + n < 0 THEN 0 ELSE i + n)
    ELSE IF i > n THEN n ELSE i

\* line[a:b]
slice(line, a, b) ==
    SubSeq(line, SliceBound(a, Len(line)) + 1, SliceBound(b, Len(line)))

\* line 62
titles(header) == split(header)

\* line 64
column_starts(header) ==
    LET ts == titles(header)
    IN  [k \in 1..Len(ts) |-> index(header, ts[k])]

\* line 65: one end per start after the first, and the length of the header
column_ends(header) ==
    LET starts == column_starts(header)
        n      == Len(starts)
    IN  [k \in 1..(IF n = 0 THEN 1 ELSE n) |->
            IF k < n THEN starts[k + 1] - 1 ELSE Len(header)]

\* zip(a, b): pairs, as many as the shorter list has
zip(a, b) ==
    [k \in 1..(IF Len(a) < Len(b) THEN Len(a) ELSE Len(b)) |-> <<a[k], b[k]>>]

\* line 66
columns(header) == zip(column_starts(header), column_ends(header))

\* line 68, one line of values
values(header, line) ==
    LET cols == columns(header)
    IN  [k \in 1..Len(cols) |-> strip(slice(line, cols[k][1], cols[k][2]))]

\* dict(zip(keys, vals)): a later pair with the same key replaces an earlier one
dict(keys, vals) ==
    [t \in {keys[k] : k \in 1..Len(keys)} |->
        vals[CHOOSE k \in 1..Len(keys) :
                /\ keys[k] = t
                /\ \A j \in 1..Len(keys) : keys[j] = t => j <= k]]

\* lines 61-69: table[0] of an empty list raises IndexError
read_fixed_width_table(t) ==
    IF t = <<>>
    THEN [error |-> "IndexError", value |-> <<>>]
    ELSE [error |-> "",
          value |-> [m \in 1..(Len(t) - 1) |->
                        LET line == zip([k \in 1..Len(titles(t[1])) |-> strip(titles(t[1])[k])],
                                        values(t[1], t[m + 1]))
                        IN  dict([k \in 1..Len(line) |-> line[k][1]],
                                 [k \in 1..Len(line) |-> line[k][2]])]]

InkedLine(line) == strip(line) # <<>>

\* lines 128-135: the first line that starts with Number, and the non-blank
\* lines after it
TableSection(lines) ==
    LET heads == {i \in 1..Len(lines) : startswith(lines[i], NumberTitle)}
    IN  IF heads = {} THEN <<>>
        ELSE LET h == CHOOSE i \in heads : \A j \in heads : i <= j
             IN  <<lines[h]>> \o SelectSeq(SubSeq(lines, h + 1, Len(lines)), InkedLine)

\* numify, lines 73-74: the characters of a number, the others dropped
numify(str) ==
    LET IsNumeric(c) == c \in {"-", "+", ".", "1", "2", "3", "4", "5", "6", "7", "8", "9", "0"}
    IN  SelectSeq(str, IsNumeric)

\* the key of a parsed record that Partition.__init__ misses first, lines 76-78
MissingKey(record) ==
    IF NumberTitle \notin DOMAIN record THEN "KeyError: 'Number'"
    ELSE IF StartTitle \notin DOMAIN record THEN "KeyError: 'Start'"
    ELSE IF EndTitle \notin DOMAIN record THEN "KeyError: 'End'"
    ELSE ""

\* line 137: one Partition per parsed record, its fields the strings of
\* lines 75-80; the first record that lacks a key raises KeyError
Partitions(records, max_size) ==
    IF records # <<>> /\ MissingKey(records[1]) # ""
    THEN [error |-> MissingKey(records[1]), value |-> <<>>]
    ELSE [error |-> "",
          value |-> [m \in 1..Len(records) |->
                        PartitionInit([number |-> records[m][NumberTitle],
                                       start  |-> numify(records[m][StartTitle]),
                                       end    |-> numify(records[m][EndTitle])],
                                      numify(max_size))]]

\* the variables a call of the parser or of refresh on its own leaves alone
ParserFrame == <<check_mode, run, dLabel, dStart, dEnd, devLabel, devParts, idx,
                 cmds, prev, changed_label, changed_table, result, error>>

ParserInitial ==
    /\ Idle
    /\ pc = "new"
    /\ arg \in Tables
    /\ out = [fn |-> "none", error |-> "", value |-> <<>>, attrs |-> {}]

\* a call of read_fixed_width_table on the lines
CallReadFixedWidthTable ==
    /\ pc = "new"
    /\ \E parsed \in {read_fixed_width_table(arg)} :
          out' = [fn |-> "read_fixed_width_table", error |-> parsed.error,
                  value |-> parsed.value, attrs |-> {}]
    /\ pc' = "returned"
    /\ UNCHANGED <<arg, IdleVars>>

\* refresh, lines 119-137, on a report of exit code 0 whose lines these are.
\* No line of Tables holds "Partition Table:" or "Disk", so label and size
\* are read_field's default, the empty string (lines 125-126); then the table
\* section is parsed and one Partition built per record. self.table is
\* assigned when nothing was raised; out.attrs names the attributes that the
\* call has assigned.
CallRefreshTable ==
    /\ pc = "new"
    /\ \E built \in {LET parsed == read_fixed_width_table(TableSection(arg))
                     IN  IF parsed.error # "" THEN parsed
                         ELSE Partitions(parsed.value, <<>>)} :
           /\ label' = <<>>
           /\ size' = <<>>
           /\ table' = IF built.error = "" THEN built.value ELSE table
           /\ loaded' = (built.error = "")
           /\ out' = [fn |-> "refresh", error |-> built.error, value |-> built.value,
                      attrs |-> IF built.error = "" THEN {"label", "size", "table"}
                                ELSE {"label", "size"}]
    /\ pc' = "returned"
    /\ UNCHANGED <<arg, ParserFrame>>

ParserNext ==
    \/ CallReadFixedWidthTable
    \/ CallRefreshTable

SpecParser == ParserInitial /\ [][ParserNext]_vars

---------------------------------------------------------------------------
(* C15: the shape of the parsed table *)

\* the offsets, from 0, at which the titles of the header begin
TitleStarts(header) ==
    {i \in 0..(Len(header) - 1) :
        header[i + 1] # " " /\ (i = 0 \/ header[i] = " ")}

\* the column that begins at offset a: it ends one character before the next
\* title, and the last column ends with the header
ColumnEnd(header, a) ==
    LET later == {b \in TitleStarts(header) : b > a}
    IN  IF later = {} THEN Len(header)
        ELSE (CHOOSE b \in later : \A c \in later : b <= c) - 1

\* the title that begins at offset a
TitleAt(header, a) ==
    LET ends == {e \in (a + 1)..Len(header) :
                    /\ \A i \in (a + 1)..e : header[i] # " "
                    /\ (e = Len(header) \/ header[e + 1] = " ")}
    IN  SubSeq(header, a + 1, CHOOSE e \in ends : TRUE)

\* the titles differ from one another, and every data row keeps its ink
\* inside the columns
WellFormedTable(t) ==
    /\ t # <<>>
    /\ TitleStarts(t[1]) # {}
    /\ \A a, b \in TitleStarts(t[1]) : TitleAt(t[1], a) = TitleAt(t[1], b) => a = b
    /\ \A m \in 2..Len(t) : \A i \in 1..Len(t[m]) :
          t[m][i] # " " =>
              \E a \in TitleStarts(t[1]) : a < i /\ i <= ColumnEnd(t[1], a)

\* the record a row stands for: every title with the trimmed content of its
\* column
RecordOf(header, line) ==
    [ti \in {TitleAt(header, a) : a \in TitleStarts(header)} |->
        LET a == CHOOSE b \in TitleStarts(header) : TitleAt(header, b) = ti
        IN  strip(SubSeq(line, a + 1,
                         IF ColumnEnd(header, a) > Len(line) THEN Len(line)
                         ELSE ColumnEnd(header, a)))]

\* C15 as stated: read_fixed_width_table on a well-formed table of N titles
\* and M rows returns M records, in row order, each mapping every title to
\* the trimmed content of its column in that row.
C15_TableShape ==
    (pc = "returned" /\ out.fn = "read_fixed_width_table" /\ WellFormedTable(arg)) =>
        /\ out.error = ""
        /\ Len(out.value) = Len(arg) - 1
        /\ \A m \in 1..(Len(arg) - 1) : out.value[m] = RecordOf(arg[1], arg[m + 1])

---------------------------------------------------------------------------
(* C16: the empty table *)

\* C16 as stated: when the report has no line that starts with Number, or
\* has that line and no data row after it, refresh raises nothing and leaves
\* the table with no partition.
C16_EmptyTable ==
    (pc = "returned" /\ out.fn = "refresh" /\ Len(TableSection(arg)) <= 1) =>
        out.error = "" /\ "table" \in out.attrs /\ table = <<>>

====
